---- MODULE Spec2Model ----
(***************************************************************************)
(* Model of cbpro/public_client.py: PublicClient.get_product_trades with   *)
(* the generator _send_paginated_message, and the granularity check of     *)
(* PublicClient.get_product_historic_rates.                                *)
(*                                                                         *)
(* Python values are records [t, n, s]: t is the type ("none", "int",      *)
(* "str"), n the value of an int, s the characters of a str (decimal       *)
(* digits, which is all the cursor strings of this API hold).              *)
(* A dict is a function whose domain is its set of keys.                   *)
(* The items of the pages are numbered in the order the server returns     *)
(* them: the i-th item served over a run is the number i.                  *)
(***************************************************************************)
EXTENDS Integers, Sequences, FiniteSets, TLC

\* Bounds of the model.
MaxCursor == 5      \* cursors and `after` ids are 0..MaxCursor (one digit)
MaxLimit == 3       \* caller-supplied limit is None or 0..MaxLimit
MaxStop == 3        \* stop_pagination is 0..MaxStop
MaxPageLen == 2     \* a page holds 0..MaxPageLen items
MaxRequests == 3    \* requests issued by one pagination run
GranSlack == 1      \* granularities probed around each accepted value

VARIABLES
    op,          \* the public method called: "none", "trades", "rates"
    pc,          \* position of the call / of the generator body
    params,      \* the params dict (mutated in place by the paginator)
    stop,        \* stop_pagination
    demanding,   \* the consumer is inside next() on the generator
    header,      \* Cb-After header of the last response
    results,     \* decoded JSON array of the last response
    idx,         \* index in results of the next item of the for loop
    produced,    \* items yielded to the consumer so far
    served,      \* number of items the server has returned so far
    nreq,        \* number of HTTP requests issued
    sent,        \* params carried by the last HTTP request
    outstanding, \* HTTP requests issued and not yet answered
    signal,      \* what the last next() gave the consumer
    err,         \* the exception that ended the call, "none" if none
    granularity, \* argument of get_product_historic_rates
    limit,       \* argument of get_product_trades
    timeout,     \* argument of the constructor
    sentTimeout  \* timeout passed with the last HTTP request

vars == <<op, pc, params, stop, demanding, header, results, idx, produced,
          served, nreq, sent, outstanding, signal, err, granularity, limit,
          timeout, sentTimeout>>

----------------------------------------------------------------------------
\* Python values

PyNone == [t |-> "none", n |-> 0, s |-> <<>>]
PyInt(i) == [t |-> "int", n |-> i, s |-> <<>>]
PyStr(chars) == [t |-> "str", n |-> 0, s |-> chars]

\* bool(x)
Truthy(x) ==
    CASE x.t = "none" -> FALSE
      [] x.t = "int" -> x.n # 0
      [] x.t = "str" -> x.s # <<>>

\* int(s) of a string of decimal digits
RECURSIVE IntOfDigits(_)
IntOfDigits(chars) ==
    IF chars = <<>> THEN 0
    ELSE 10 * IntOfDigits(SubSeq(chars, 1, Len(chars) - 1)) + chars[Len(chars)]

\* x - y is defined on two ints only; anything else raises TypeError
CanSub(x, y) == x.t = "int" /\ y.t = "int"

\* dict.get(key, default)
Get(d, key, default) == IF key \in DOMAIN d THEN d[key] ELSE default

\* d[key] = value
Put(d, key, value) ==
    [k \in DOMAIN d \cup {key} |-> IF k = key THEN value ELSE d[k]]

EmptyDict == [k \in {} |-> PyNone]

----------------------------------------------------------------------------
\* Inputs

AfterInputs ==
    {PyStr(<<>>)} \cup {PyStr(<<d>>) : d \in 1..MaxCursor}
                \cup {PyInt(i) : i \in 0..MaxCursor}
BeforeInputs == {PyStr(<<>>), PyStr(<<1>>)}
LimitInputs == {PyNone} \cup {PyInt(i) : i \in 0..MaxLimit}
StopInputs == 0..MaxStop

\* A response header mapping: Cb-After missing, or present with a text.
NoHeader == [present |-> FALSE, text |-> <<>>]
HeaderOf(chars) == [present |-> TRUE, text |-> chars]
Headers ==
    {NoHeader, HeaderOf(<<>>)} \cup {HeaderOf(<<d>>) : d \in 0..MaxCursor}

TransportErrors == {"ConnectionError", "JSONDecodeError"}

\* timeout=30 of __init__
DefaultTimeout == 30

\* the constructor called without a timeout, or with another one
TimeoutInputs == {DefaultTimeout, 5}

----------------------------------------------------------------------------
\* get_product_trades

TradeArg(k, after, before, lim) ==
    CASE k = "before" -> before
      [] k = "limit" -> lim
      [] k = "after" -> after

BuildParams(after, before, lim) ==
    [k \in {x \in {"before", "limit", "after"} :
                Truthy(TradeArg(x, after, before, lim))}
        |-> TradeArg(k, after, before, lim)]

\* The call returns a generator object: no line of the body has run.
GetProductTrades(after, before, stop_pagination, lim) ==
    /\ pc = "idle"
    /\ op' = "trades"
    /\ pc' = "created"
    /\ params' = BuildParams(after, before, lim)
    /\ stop' = stop_pagination
    /\ limit' = lim
    /\ UNCHANGED <<granularity, timeout, sentTimeout>>
    /\ UNCHANGED <<demanding, header, results, idx, produced, served, nreq,
                   sent, outstanding, signal, err>>

----------------------------------------------------------------------------
\* The consumer

\* next() on the generator
Demand ==
    /\ op = "trades"
    /\ ~demanding
    /\ pc \in {"created", "emit", "done", "raised"}
    /\ demanding' = TRUE
    /\ UNCHANGED <<granularity, limit, timeout, sentTimeout>>
    /\ UNCHANGED <<op, pc, params, stop, header, results, idx, produced,
                   served, nreq, sent, outstanding, signal, err>>

\* next() on a generator that has returned or raised: StopIteration
ResumeFinished ==
    /\ demanding
    /\ pc \in {"done", "raised"}
    /\ demanding' = FALSE
    /\ signal' = "StopIteration"
    /\ UNCHANGED <<granularity, limit, timeout, sentTimeout>>
    /\ UNCHANGED <<op, pc, params, stop, header, results, idx, produced,
                   served, nreq, sent, outstanding, err>>

----------------------------------------------------------------------------
\* _send_paginated_message

\* the test of `before` left out
BeforeNotChecked(p) == FALSE

\* if params.get('before')
BeforeRejected(p) == Truthy(Get(p, "before", PyNone))

\* a body that runs ahead of the consumer
AlwaysRunning == TRUE

\* The body is a generator: its frame executes only while the consumer is
\* inside next(), and is suspended at `yield` the rest of the time.
Resumed == demanding

\* First next(): the body runs up to the loop.
Start ==
    /\ pc = "created"
    /\ Resumed
    /\ IF BeforeRejected(params)
       THEN /\ pc' = "raised"
            /\ err' = "ValueError"
            /\ signal' = "error"
            /\ demanding' = FALSE
       ELSE /\ pc' = "send"
            /\ UNCHANGED <<err, signal, demanding>>
    /\ UNCHANGED <<granularity, limit, timeout, sentTimeout>>
    /\ UNCHANGED <<op, params, stop, header, results, idx, produced, served,
                   nreq, sent, outstanding>>

\* timeout=30 of session.get and session.request
RequestTimeout == 30

\* self.session.get(url, params=params, ..., timeout=30) is called, as long
\* as fewer than cap requests have been issued
SendWithin(cap) ==
    /\ pc = "send"
    /\ Resumed
    /\ nreq < cap
    /\ pc' = "wait"
    /\ nreq' = nreq + 1
    /\ sent' = params
    /\ sentTimeout' = RequestTimeout
    /\ outstanding' = outstanding + 1
    /\ UNCHANGED <<granularity, limit, timeout>>
    /\ UNCHANGED <<op, params, stop, demanding, header, results, idx,
                   produced, served, signal, err>>

Send == SendWithin(MaxRequests)

\* the request tried again after an exception
RetryOnFailure(kind) == [pc |-> "send", err |-> "none"]

\* what an exception out of session.get or response.json does to the call
OnFailure(kind) == [pc |-> "raised", err |-> kind]

\* session.get returns and response.json() decodes an array of n items
Receive(n, h) ==
    /\ pc = "wait"
    /\ pc' = "emit"
    /\ outstanding' = outstanding - 1
    /\ results' = [i \in 1..n |-> served + i]
    /\ served' = served + n
    /\ header' = h
    /\ idx' = 1
    /\ UNCHANGED <<granularity, limit, timeout, sentTimeout>>
    /\ UNCHANGED <<op, params, stop, demanding, produced, nreq, sent,
                   signal, err>>

\* session.get or response.json() raises
Fail(kind) ==
    /\ pc = "wait"
    /\ pc' = OnFailure(kind).pc
    /\ err' = OnFailure(kind).err
    /\ signal' = IF OnFailure(kind).pc = "raised" THEN "error"
                 ELSE "StopIteration"
    /\ outstanding' = outstanding - 1
    /\ demanding' = FALSE
    /\ UNCHANGED <<granularity, limit, timeout, sentTimeout>>
    /\ UNCHANGED <<op, params, stop, header, results, idx, produced, served,
                   nreq, sent>>

\* the loop variable stuck on the first item of the page
YieldFirstItem(res, i) == res[1]

\* the item the for loop yields at position i
YieldItem(res, i) == res[i]

\* `yield result`: the item goes to the consumer and the frame is suspended
Yield ==
    /\ pc = "emit"
    /\ Resumed
    /\ idx <= Len(results)
    /\ produced' = Append(produced, YieldItem(results, idx))
    /\ idx' = idx + 1
    /\ demanding' = FALSE
    /\ signal' = "item"
    /\ UNCHANGED <<granularity, limit, timeout, sentTimeout>>
    /\ UNCHANGED <<op, pc, params, stop, header, results, served, nreq,
                   sent, outstanding, err>>

\* int(response.headers['Cb-After']) if response.headers.get('Cb-After')
\* else None
NextAfter(h) ==
    IF h.present /\ Truthy(PyStr(h.text)) THEN PyInt(IntOfDigits(h.text))
    ELSE PyNone

\* operands of params.get('after', 0) - params.get('limit')
WindowAfter(p) == Get(p, "after", PyInt(0))
WindowLimit(p) == Get(p, "limit", PyNone)

\* a page without items taken for the end of the data
NoMorePagesOrEmptyPage(next_after) ==
    ~Truthy(next_after) \/ results = <<>>

\* the test of the cursor left out
NoMorePagesUnchecked(next_after) == FALSE

\* `not next_after`, the left operand of the `or`
NoMorePages(next_after) == ~Truthy(next_after)

\* the subtraction of line 321 raises TypeError
WindowRaises(p) == ~CanSub(WindowAfter(p), WindowLimit(p))

\* the boundary tested on the cursor of the response
StopReachedOnCursor(p, stop_pagination) ==
    stop_pagination = NextAfter(header).n - WindowLimit(p).n

\* the window of the request computed with + for -
StopReachedPlus(p, stop_pagination) ==
    stop_pagination = WindowAfter(p).n + WindowLimit(p).n

\* stop_pagination == params.get('after', 0) - params.get('limit')
StopReached(p, stop_pagination) ==
    stop_pagination = WindowAfter(p).n - WindowLimit(p).n

\* the limit never shrunk
OvershootsNever(p, stop_pagination, next_after) == FALSE

\* stop_pagination > next_after - params.get('limit')
Overshoots(p, stop_pagination, next_after) ==
    stop_pagination > next_after.n - WindowLimit(p).n

\* the operands of the subtraction exchanged
ShrunkLimitReversed(stop_pagination, next_after) ==
    PyInt(stop_pagination - next_after.n)

\* next_after - stop_pagination
ShrunkLimit(stop_pagination, next_after) ==
    PyInt(next_after.n - stop_pagination)

\* params after lines 324-326
NextParams(p, stop_pagination, next_after) ==
    Put(IF Overshoots(p, stop_pagination, next_after)
        THEN Put(p, "limit", ShrunkLimit(stop_pagination, next_after))
        ELSE p,
        "after", next_after)

\* The for loop is exhausted: lines 320-326.
Decide ==
    /\ pc = "emit"
    /\ Resumed
    /\ idx > Len(results)
    /\ LET next_after == NextAfter(header) IN
       IF NoMorePages(next_after)
       THEN /\ pc' = "done"
            /\ signal' = "StopIteration"
            /\ demanding' = FALSE
            /\ UNCHANGED <<params, err>>
       ELSE IF WindowRaises(params)
       THEN /\ pc' = "raised"
            /\ err' = "TypeError"
            /\ signal' = "error"
            /\ demanding' = FALSE
            /\ UNCHANGED params
       ELSE IF StopReached(params, stop)
       THEN /\ pc' = "done"
            /\ signal' = "StopIteration"
            /\ demanding' = FALSE
            /\ UNCHANGED <<params, err>>
       ELSE /\ pc' = "send"
            /\ params' = NextParams(params, stop, next_after)
            /\ UNCHANGED <<signal, demanding, err>>
    /\ UNCHANGED <<granularity, limit, timeout, sentTimeout>>
    /\ UNCHANGED <<op, stop, header, results, idx, produced, served, nreq,
                   sent, outstanding>>

----------------------------------------------------------------------------
\* get_product_historic_rates

\* a list of granularities with one value mistyped
AcceptedGransTypo == {60, 300, 900, 3600, 21600, 86401}

\* acceptedGrans
AcceptedGrans == {60, 300, 900, 3600, 21600, 86400}

\* The granularities the documentation of the API lists.
DocumentedGrans == {60, 300, 900, 3600, 21600, 86400}

GranInputs ==
    {PyNone} \cup {PyInt(0), PyInt(-60)}
           \cup {PyInt(g + d) : g \in DocumentedGrans,
                                d \in -GranSlack..GranSlack}
TimeInputs == {PyNone, PyStr(<<1>>)}

GranRejected(g) ==
    g # PyNone /\ g.n \notin AcceptedGrans

RatesArg(k, start, end, g) ==
    CASE k = "start" -> start
      [] k = "end" -> end
      [] k = "granularity" -> g

RatesParams(start, end, g) ==
    [k \in {x \in {"start", "end", "granularity"} :
                RatesArg(x, start, end, g) # PyNone}
        |-> RatesArg(k, start, end, g)]

\* outcome is "ok" or the exception of _send_message
GetProductHistoricRates(start, end, g, outcome) ==
    /\ pc = "idle"
    /\ op' = "rates"
    /\ granularity' = g
    /\ IF GranRejected(g)
       THEN /\ pc' = "raised"
            /\ err' = "ValueError"
            /\ params' = RatesParams(start, end, PyNone)
            /\ UNCHANGED <<nreq, sent, sentTimeout>>
       ELSE /\ params' = RatesParams(start, end, g)
            /\ nreq' = nreq + 1
            /\ sent' = params'
            /\ sentTimeout' = RequestTimeout
            /\ IF outcome = "ok"
               THEN pc' = "returned" /\ UNCHANGED err
               ELSE pc' = "raised" /\ err' = outcome
    /\ UNCHANGED <<stop, demanding, header, results, idx, produced, served,
                   outstanding, signal, limit, timeout>>

----------------------------------------------------------------------------

Init ==
    /\ op = "none"
    /\ pc = "idle"
    /\ params = EmptyDict
    /\ stop = 0
    /\ demanding = FALSE
    /\ header = NoHeader
    /\ results = <<>>
    /\ idx = 1
    /\ produced = <<>>
    /\ served = 0
    /\ nreq = 0
    /\ sent = EmptyDict
    /\ outstanding = 0
    /\ signal = "none"
    /\ err = "none"
    /\ granularity = PyNone
    /\ limit = PyNone
    /\ timeout \in TimeoutInputs
    /\ sentTimeout = 0

Next ==
    \/ \E a \in AfterInputs, b \in BeforeInputs, s \in StopInputs,
          l \in LimitInputs : GetProductTrades(a, b, s, l)
    \/ Demand
    \/ ResumeFinished
    \/ Start
    \/ Send
    \/ \E n \in 0..MaxPageLen, h \in Headers : Receive(n, h)
    \/ \E kind \in TransportErrors : Fail(kind)
    \/ Yield
    \/ Decide
    \/ \E st \in TimeInputs, en \in TimeInputs, g \in GranInputs,
          o \in {"ok"} \cup TransportErrors :
            GetProductHistoricRates(st, en, g, o)

Spec == Init /\ [][Next]_vars

----------------------------------------------------------------------------
\* A server that keeps to `limit`: "Set amount of data per HTTP response".
\* A page answers a request with a positive limit with at most that many
\* items.

HonoursLimit(n) ==
    (WindowLimit(sent).t = "int" /\ WindowLimit(sent).n > 0)
        => n <= WindowLimit(sent).n

ReceiveHonest(n, h) == HonoursLimit(n) /\ Receive(n, h)

NextHonest ==
    \/ \E a \in AfterInputs, b \in BeforeInputs, s \in StopInputs,
          l \in LimitInputs : GetProductTrades(a, b, s, l)
    \/ Demand
    \/ ResumeFinished
    \/ Start
    \/ Send
    \/ \E n \in 0..MaxPageLen, h \in Headers : ReceiveHonest(n, h)
    \/ \E kind \in TransportErrors : Fail(kind)
    \/ Yield
    \/ Decide

SpecHonest == Init /\ [][NextHonest]_vars

----------------------------------------------------------------------------
\* A run in which every request succeeds, `before` is not given, the consumer
\* keeps calling next() and the server walks back in time: the cursor of a
\* response, when there is one, is a positive integer below the `after` of
\* its request.

\* the pagination id a value of `after` stands for
AfterValue(x) == IF x.t = "int" THEN x.n ELSE IntOfDigits(x.s)

DecreasingCursor(h) ==
    (h.present /\ h.text # <<>>) =>
        /\ IntOfDigits(h.text) > 0
        /\ "after" \in DOMAIN sent =>
              IntOfDigits(h.text) < AfterValue(sent["after"])

ReceiveDecreasing(n, h) == DecreasingCursor(h) /\ Receive(n, h)

\* more requests than a decreasing chain of cursors can take
TerminationCap == MaxCursor + 2

NextDecreasing ==
    \/ \E a \in AfterInputs, s \in StopInputs, l \in LimitInputs :
          GetProductTrades(a, PyStr(<<>>), s, l)
    \/ Demand
    \/ ResumeFinished
    \/ Start
    \/ SendWithin(TerminationCap)
    \/ \E n \in 0..MaxPageLen, h \in Headers : ReceiveDecreasing(n, h)
    \/ Yield
    \/ Decide

SpecDecreasing ==
    Init /\ [][NextDecreasing]_vars /\ WF_vars(NextDecreasing)

----------------------------------------------------------------------------
\* Vocabulary of the properties

\* the response carries a non-empty Cb-After header
HasCursor(h) == h.present /\ h.text # <<>>

\* the integer it carries
CursorValue(h) == IntOfDigits(h.text)

\* the items the server has returned so far, in the order it returned them
AllServed == [i \in 1..served |-> i]

\* the generator has produced the last item of the page and is asked for more
AtDecision == pc = "emit" /\ demanding /\ idx > Len(results)

\* the generator has ended
Ended == pc \in {"done", "raised"}

----------------------------------------------------------------------------
\* C1, as stated: a series of pages goes on for as long as its pages carry a
\* cursor, so a run that has ended normally has ended on the page without
\* cursor (a cursor of 0 counted as none) and has produced every item of the
\* series.
C1_WholeSeries ==
    pc = "done" =>
        /\ produced = AllServed
        /\ HasCursor(header) => CursorValue(header) = 0

\* C1, amended: sequence completeness over the pages fetched. The items
\* produced are at all times the first items the server returned, in the
\* order it returned them, and when the run ends on a page without a cursor
\* header they are all of them: the concatenation of the pages, nothing
\* repeated, nothing left out. (The stop test can end the run on a page that
\* carries a cursor.)
C1_SequenceCompleteness ==
    op = "trades" =>
        /\ Len(produced) <= served
        /\ produced = [i \in 1..Len(produced) |-> i]
        /\ (pc = "done" /\ ~HasCursor(header)) => produced = AllServed

C1_Witness ==
    /\ pc = "done"
    /\ ~HasCursor(header)
    /\ nreq = 3
    /\ Len(produced) = 5

\* C2: natural end of data. From a page whose response has no Cb-After header
\* (missing or empty) the generator only produces the items of the page and
\* then ends normally, whatever after, limit and stop_pagination are; once
\* ended it stays ended and no request is issued any more.
C2_NaturalEnd ==
    [][ /\ (pc = "emit" /\ ~HasCursor(header)) =>
              /\ pc' \in {"emit", "done"}
              /\ nreq' = nreq
              /\ pc' = "done" => (produced' = AllServed /\ err' = "none")
        /\ (AtDecision /\ ~HasCursor(header)) => pc' = "done"
        /\ pc = "done" => (pc' = "done" /\ nreq' = nreq)
      ]_vars

C2_Witness ==
    /\ pc = "done"
    /\ header = HeaderOf(<<>>)
    /\ signal = "StopIteration"
    /\ demanding
    /\ nreq = 2
    /\ Len(produced) = 3
    /\ stop = 1

\* the subtraction of the stop test is defined on the request just answered
WindowDefined(p) == ~WindowRaises(p)

\* C3, as stated: at the page whose response reports the cursor
\* stop_pagination + limit, limit being the limit of the request that fetched
\* it, the generator ends after the items of that page. (Taken on the runs
\* where the subtraction of the stop test is defined, so that what refutes it
\* is a further request and not an exception.)
C3_StopOnResponseCursor ==
    [][ ( /\ AtDecision
          /\ HasCursor(header)
          /\ WindowDefined(sent)
          /\ CursorValue(header) = stop + WindowLimit(sent).n )
        => pc' = "done"
      ]_vars

\* C3, amended: the boundary is tested on the request, not on the response.
\* A page fetched by a request whose after (0 when none was sent) is the
\* integer stop_pagination + limit ends the run normally once its items are
\* produced, and no further request is issued. A response whose cursor is
\* stop_pagination + limit, fetched by a request whose window is not at the
\* boundary, is followed by one request with after = that cursor and the
\* limit unchanged.
C3_StopOnRequestWindow ==
    [][ /\ ( /\ AtDecision
             /\ WindowDefined(sent)
             /\ WindowAfter(sent).n = stop + WindowLimit(sent).n )
           => /\ pc' = "done"
              /\ err' = "none"
              /\ nreq' = nreq
              /\ produced' = AllServed
        /\ ( /\ AtDecision
             /\ HasCursor(header)
             /\ CursorValue(header) # 0
             /\ WindowDefined(sent)
             /\ CursorValue(header) = stop + WindowLimit(sent).n
             /\ WindowAfter(sent).n # stop + WindowLimit(sent).n )
           => /\ pc' = "send"
              /\ params' = Put(sent, "after", PyInt(CursorValue(header)))
        /\ pc = "done" => (pc' = "done" /\ nreq' = nreq)
      ]_vars

C3_Witness ==
    /\ pc = "done"
    /\ nreq = 2
    /\ HasCursor(header)
    /\ CursorValue(header) # 0
    /\ WindowDefined(sent)
    /\ WindowAfter(sent).n = stop + WindowLimit(sent).n
    /\ stop = 2
    /\ Len(produced) = 4

\* C4: window shrinking. When the response carries the cursor N, the limit of
\* the request is L, stop_pagination > N - L and the generator goes on, the
\* params of the next request are limit = N - stop_pagination and after = N;
\* they are set before the request is issued and the request carries them.
C4_WindowShrinking ==
    [][ /\ ( /\ AtDecision
             /\ HasCursor(header)
             /\ WindowLimit(sent).t = "int"
             /\ stop > CursorValue(header) - WindowLimit(sent).n
             /\ pc' = "send" )
           => /\ params'["limit"] = PyInt(CursorValue(header) - stop)
              /\ params'["after"] = PyInt(CursorValue(header))
        /\ pc = "send" => (params' = params /\ pc' \in {"send", "wait"})
        /\ (pc = "send" /\ pc' = "wait") => (sent' = params /\ nreq' = nreq + 1)
      ]_vars

\* the limit 3 of the first request shrunk to 5 - 3 for the second one
C4_Witness ==
    /\ pc = "send"
    /\ nreq = 1
    /\ stop = 3
    /\ HasCursor(header)
    /\ CursorValue(header) = 5
    /\ sent = [limit |-> PyInt(3)]
    /\ params = [limit |-> PyInt(2), after |-> PyInt(5)]
    /\ Len(produced) = 2

\* the stop test of the generator holds on the request just answered
StopTestHolds ==
    WindowDefined(sent) /\ stop = WindowAfter(sent).n - WindowLimit(sent).n

\* C5: continuation. Whenever the response carries a non-empty Cb-After with
\* the integer value N and the stop test stop_pagination = after - limit does
\* not hold, the generator goes on to a request with after = N, and with the
\* limit of the previous request when stop_pagination <= N - limit.
C5_Continuation ==
    [][ (AtDecision /\ HasCursor(header) /\ ~StopTestHolds)
        => /\ pc' = "send"
           /\ Get(params', "after", PyNone) = PyInt(CursorValue(header))
           /\ ( /\ WindowLimit(sent).t = "int"
                /\ stop <= CursorValue(header) - WindowLimit(sent).n )
              => WindowLimit(params') = WindowLimit(sent)
      ]_vars

C7_GranularityValidation ==
    op = "rates" =>
        /\ (granularity.t = "int" /\ granularity.n \in DocumentedGrans) =>
              /\ err # "ValueError"
              /\ nreq = 1
              /\ Get(sent, "granularity", PyNone) = granularity
        /\ (granularity.t = "int" /\ granularity.n \notin DocumentedGrans) =>
              /\ pc = "raised"
              /\ err = "ValueError"
              /\ nreq = 0
        /\ granularity = PyNone =>
              /\ err # "ValueError"
              /\ nreq = 1
              /\ "granularity" \notin DOMAIN sent

C7_Witness ==
    /\ op = "rates"
    /\ granularity = PyInt(86401)
    /\ pc = "raised"
    /\ err = "ValueError"
    /\ nreq = 0

\* C8: pull-driven, sequential fetching. A request is issued only while the
\* consumer is demanding an item, with no other request outstanding and
\* every item of the pages received so far already produced; so request k+1
\* follows the last item of page k and one more demand. At most one request
\* is outstanding, and while the consumer does not demand, nothing is
\* requested or produced.
C8_PullDriven ==
    [][ op = "trades" =>
          /\ nreq' # nreq =>
                /\ demanding
                /\ nreq' = nreq + 1
                /\ outstanding = 0
                /\ outstanding' = 1
                /\ produced = AllServed
                /\ nreq >= 1 => idx > Len(results)
          /\ outstanding' \in {0, 1}
          /\ ~demanding =>
                /\ nreq' = nreq
                /\ outstanding' = outstanding
                /\ produced' = produced
                /\ pc' = pc
      ]_vars

C8_Witness ==
    /\ pc = "wait"
    /\ nreq = 2
    /\ outstanding = 1
    /\ demanding
    /\ Len(produced) = 2

\* C9: no partial-result suppression. When the request for page k fails
\* (connection or JSON decoding), the items of pages 1..k-1 have all been
\* produced, the generator ends with that exception and not normally, and no
\* request is issued again.
C9_FailurePropagates ==
    [][ /\ (pc = "wait" /\ pc' # "emit") =>
              /\ pc' = "raised"
              /\ err' \in TransportErrors
              /\ signal' = "error"
              /\ produced = AllServed
              /\ produced' = produced
              /\ nreq' = nreq
        /\ pc = "raised" => (pc' = "raised" /\ err' = err /\ nreq' = nreq)
      ]_vars

C9_Witness ==
    /\ op = "trades"
    /\ pc = "raised"
    /\ err = "JSONDecodeError"
    /\ nreq = 3
    /\ Len(produced) = 4
    /\ signal = "StopIteration"

\* C10: the end of pagination is never an error. With `before` absent and
\* every request answered by a JSON array, get_product_trades ends normally;
\* the only exceptions are the ValueError for `before` and those of the
\* transport.
C10_EndIsNotAnError ==
    op = "trades" =>
        /\ err \in {"none", "ValueError"} \cup TransportErrors
        /\ err = "ValueError" => "before" \in DOMAIN params

\* C11: limit is the desired number of trades. For a positive limit, the
\* number of trades produced over all the pages fetched does not exceed it.
C11_LimitIsTotal ==
    (op = "trades" /\ limit.t = "int" /\ limit.n > 0)
        => Len(produced) <= limit.n

\* C12: the request timeout is configuration of the constructor. Every HTTP
\* request, of _send_message and of _send_paginated_message, is made with
\* the timeout the client was constructed with (30 when none was given).
C12_TimeoutFromConstructor ==
    nreq > 0 => sentTimeout = timeout

\* C13: stop boundary on the request window. After the last item of a page
\* fetched with after = a (0 when none was sent) and limit = l whose response
\* carries a cursor: if stop_pagination = a - l the generator ends normally
\* without another request, and if stop_pagination # a - l it does not end
\* at this step.
C13_StopBoundaryOnRequest ==
    [][ (AtDecision /\ HasCursor(header) /\ WindowDefined(sent))
        => IF stop = WindowAfter(sent).n - WindowLimit(sent).n
           THEN pc' = "done" /\ err' = "none" /\ nreq' = nreq
           ELSE pc' \notin {"done", "raised"}
      ]_vars

\* C14: limit bounds. The limit carried by a request is a positive integer,
\* not greater than the limit the caller supplied.
C14_LimitBounds ==
    (op = "trades" /\ nreq >= 1 /\ "limit" \in DOMAIN sent)
        => /\ sent["limit"].t = "int"
           /\ sent["limit"].n > 0
           /\ limit.t = "int" => sent["limit"].n <= limit.n

\* C15: empty page. A page of zero items that carries a cursor produces no
\* item, and its cursor is evaluated as the cursor of any page: the outcome
\* of the step is the same function of the cursor, of the request and of
\* stop_pagination whatever the page holds (stop test, shrunk limit,
\* after = cursor, next request). The empty page does not end the run and
\* raises nothing.
C15_EmptyPage ==
    [][ /\ (pc = "emit" /\ results = <<>>) =>
              /\ produced' = produced
              /\ demanding => pc' # "emit"
        /\ ( /\ AtDecision
             /\ HasCursor(header)
             /\ CursorValue(header) # 0
             /\ WindowDefined(sent) )
           => IF stop = WindowAfter(sent).n - WindowLimit(sent).n
              THEN pc' = "done" /\ err' = "none"
              ELSE /\ pc' = "send"
                   /\ err' = "none"
                   /\ params'["after"] = PyInt(CursorValue(header))
                   /\ params'["limit"] =
                        IF stop > CursorValue(header) - WindowLimit(sent).n
                        THEN PyInt(CursorValue(header) - stop)
                        ELSE WindowLimit(sent)
      ]_vars

\* an empty first page with the cursor 5, and the request that follows it
C15_Witness ==
    /\ pc = "wait"
    /\ nreq = 2
    /\ results = <<>>
    /\ produced = <<>>
    /\ header = HeaderOf(<<5>>)
    /\ sent["after"] = PyInt(5)
    /\ err = "none"

\* C16: the request window never crosses the stop boundary. Every request
\* after the first one carries an integer after = a and an integer limit = l
\* with a - l >= stop_pagination, whatever the cursors of the server and the
\* arguments of the caller.
C16_WindowAboveStop ==
    (op = "trades" /\ nreq >= 2)
        => /\ WindowDefined(sent)
           /\ "after" \in DOMAIN sent
           /\ WindowAfter(sent).n - WindowLimit(sent).n >= stop

\* a second request with the limit left alone (5 - 2 > 2), then a third one
\* with the limit shrunk to the boundary (3 - 1 = 2)
C16_Witness ==
    /\ pc = "wait"
    /\ nreq = 3
    /\ stop = 2
    /\ limit = PyInt(2)
    /\ sent = [limit |-> PyInt(1), after |-> PyInt(3)]
    /\ Len(produced) = 2

\* the window of the request p ends on the stop boundary
AtBoundary(p) ==
    WindowDefined(p) /\ WindowAfter(p).n - WindowLimit(p).n = stop

\* C17: a shrunk page is the last page. The step that adjusts the limit sets
\* it to next_after - stop_pagination with after = next_after, which puts the
\* window of the next request on the boundary; from there the params do not
\* change any more (the limit is adjusted at most once), the one request
\* that follows carries them, and when its page has been produced the
\* generator ends normally, with or without a cursor in the response.
C17_ShrunkPageIsLast ==
    [][ /\ (pc = "emit" /\ WindowLimit(params') # WindowLimit(params)) =>
              /\ pc' = "send"
              /\ HasCursor(header)
              /\ params'["limit"] = PyInt(CursorValue(header) - stop)
              /\ params'["after"] = PyInt(CursorValue(header))
              /\ AtBoundary(params')
              /\ ~AtBoundary(params)
        /\ (pc \in {"send", "wait", "emit"} /\ AtBoundary(params)) =>
              /\ params' = params
              /\ pc = "send" => pc' \in {"send", "wait"}
              /\ (pc = "send" /\ pc' = "wait") => sent' = params
              /\ pc = "wait" => (pc' \in {"emit", "raised"} /\ nreq' = nreq)
              /\ pc = "emit" => (pc' \in {"emit", "done"} /\ nreq' = nreq)
              /\ AtDecision =>
                    (pc' = "done" /\ err' = "none" /\ produced' = AllServed)
        /\ pc = "done" => (pc' = "done" /\ nreq' = nreq)
      ]_vars

\* limit 3 shrunk to 5 - 3, and the run ended on the second page although
\* its response carries the cursor 4
C17_Witness ==
    /\ pc = "done"
    /\ nreq = 2
    /\ stop = 3
    /\ limit = PyInt(3)
    /\ sent = [limit |-> PyInt(2), after |-> PyInt(5)]
    /\ header = HeaderOf(<<4>>)
    /\ Len(produced) = 3

\* C18: termination. When every request succeeds, the consumer keeps
\* demanding and the cursors are positive and strictly decreasing, the
\* generator reaches its terminal state DONE.
C18_Termination == <>(pc = "done")

====
